---- MODULE Spec2Model ----
(***************************************************************************)
(* Attendance backend of harrazwild/attendancePrj: the lecturer routes     *)
(* (session creation, QR scan, session completion), the direct session     *)
(* delete of the statistics screen, and the relational store they share.   *)
(* Every `await app.db...` of a handler is one atomic store statement and  *)
(* one step of the model; handlers of different requests interleave        *)
(* between their statements.                                               *)
(***************************************************************************)
EXTENDS Integers, FiniteSets, Sequences, Bags, TLC

(* ------------------------------ bounds --------------------------------- *)
\* number of HTTP requests issued in one behaviour
MaxRequests == 2
\* number of session ids (uuid) the store ever hands out
MaxSessions == 2
\* number of clock advances in one behaviour
MaxTicks == 1
\* milliseconds the server clock advances in one Tick of the interleaving model
TickMs == 40 * 1000
\* spread, in milliseconds, of the inputs of the freshness specification
FineRange == 6

(* --------------------------- the user table ---------------------------- *)
Lecturers == {"l1", "l2"}
Students == {"s1", "s2"}
Users == Lecturers \cup Students
role(u) == IF u \in Lecturers THEN "lecturer" ELSE "student"
name(u) == CASE u = "l1" -> "Dr One"
             [] u = "l2" -> "Dr Two"
             [] u = "s1" -> "Alice"
             [] u = "s2" -> "Bob"
             [] OTHER -> ""

(* ---------------------------- the courses ------------------------------ *)
courses == {[id |-> "c1", lecturerId |-> "l1"], [id |-> "c2", lecturerId |-> "l2"]}

(* ------------------------------- time ---------------------------------- *)
\* Number.NaN, the getTime() of an invalid Date; valid times are >= 0
NaN == -1
\* Date.prototype.toISOString: "...ss.mmmZ", seconds and milliseconds as text fields
toISOString(t) == <<t \div 1000, t % 1000>>
\* new Date(text).getTime(): milliseconds of an ISO text, NaN for anything else
getTime(text) == IF Len(text) = 2 THEN text[1] * 1000 + text[2] ELSE NaN
\* the text of a missing or unparseable timestamp field
InvalidDate == <<>>

\* variant: the upper end of the window excluded (>= 30)
OutsideWindow_Exclusive(qrTime, currentTime) ==
    /\ qrTime # NaN
    /\ \/ currentTime - qrTime < 0
       \/ currentTime - qrTime >= 30 * 1000
\* timeDifference < 0 || timeDifference > 30, with timeDifference =
\* (currentTime - qrTime) / 1000; every comparison with NaN is false
OutsideWindow(qrTime, currentTime) ==
    /\ qrTime # NaN
    /\ \/ currentTime - qrTime < 0
       \/ currentTime - qrTime > 30 * 1000

(* ----------------------------- qr payloads ----------------------------- *)
\* request.body.qrData: "" (absent), text JSON.parse rejects, or a JSON object
QrObject(studentId, studentName, timestamp) ==
    [syntax |-> "object", studentId |-> studentId, name |-> studentName, timestamp |-> timestamp]
QrEmpty == [syntax |-> "empty", studentId |-> "", name |-> "", timestamp |-> InvalidDate]
QrGarbage == [syntax |-> "garbage", studentId |-> "", name |-> "", timestamp |-> InvalidDate]

\* the timestamps of the payloads: issued at the first and at the last clock value
QrTimes == {0, MaxTicks * TickMs}
\* the payloads a lecturer device may submit: the unsigned payload can carry
\* any student id, any display name and any timestamp
QrInputs ==
    {QrGarbage}
    \cup {QrObject(s, "Mallory", toISOString(t)) : s \in Students, t \in QrTimes}
    \cup {QrObject("ghost", "Mallory", toISOString(0))}

VARIABLES attendanceSessions, attendanceRecords, nextSessionId, clock, requests, screen

vars == <<attendanceSessions, attendanceRecords, nextSessionId, clock, requests, screen>>

(* ------------------------------ the store ------------------------------ *)
NULL == <<>>
Timestamp(t) == <<t>>

\* db.query.attendanceSessions.findFirst({where: eq(id, sessionId)})
findSession(S, sessionId) == {s \in S : s.id = sessionId}

\* the rows of attendance_records (a bag: the table itself does not forbid equal rows)
Rows(R) == BagToSet(R)
RowsOf(R, sessionId) == {r \in Rows(R) : r.sessionId = sessionId}
CountFor(R, sessionId, studentId) ==
    LET hits == {r \in Rows(R) : r.sessionId = sessionId /\ r.studentId = studentId}
        RECURSIVE Sum(_)
        Sum(X) == IF X = {} THEN 0
                  ELSE LET x == CHOOSE y \in X : TRUE IN CopiesIn(x, R) + Sum(X \ {x})
    IN Sum(hits)

\* variant: the table without its unique index
UniqueViolation_NoIndex(R, rows) == FALSE
\* attendance_records_unique_idx on (session_id, student_id): a statement inserting
\* `rows` is rejected when a pair is already stored or occurs twice in the statement
UniqueViolation(R, rows) ==
    \/ \E n \in rows : CountFor(R, n.sessionId, n.studentId) > 0
    \/ \E n, m \in rows : n # m /\ n.sessionId = m.sessionId /\ n.studentId = m.studentId

\* the foreign keys of attendance_records to attendance_sessions and user
ForeignKeyViolation(S, rows) ==
    \E n \in rows : findSession(S, n.sessionId) = {} \/ n.studentId \notin Users

\* db.insert(attendanceRecords).values(rows): one statement, all rows or none
insertRecords(S, R, rows) ==
    IF UniqueViolation(R, rows) \/ ForeignKeyViolation(S, rows)
    THEN [ok |-> FALSE, records |-> R]
    ELSE [ok |-> TRUE, records |-> R (+) SetToBag(rows)]

\* delete from attendance_sessions where id = sessionId, with ON DELETE cascade
deleteSession(S, sessionId) == {s \in S : s.id # sessionId}
\* variant: the foreign key without ON DELETE cascade and without enforcement
cascadeRecords_None(R, sessionId) == R
\* attendance_records.session_id references attendance_sessions(id) ON DELETE cascade
cascadeRecords(R, sessionId) ==
    LET keep == {r \in Rows(R) : r.sessionId # sessionId}
    IN [r \in keep |-> R[r]]

(* ----------------------------- requests -------------------------------- *)
\* the body of a reply that carries no statistics
NoStats == [totalStudents |-> 0, presentCount |-> 0, absentCount |-> 0, percentage |-> 0,
            presentList |-> EmptyBag, absentList |-> EmptyBag]

Idle == [kind |-> "none", pc |-> "idle", caller |-> "", sessionId |-> 0,
         courseId |-> "", week |-> 0, date |-> "", qrData |-> QrEmpty,
         studentId |-> "", scanned |-> {}, unscanned |-> {},
         outcome |-> "", studentName |-> "", absentCount |-> 0, stats |-> NoStats]

\* reply.status(..).send(..), return or throw: the handler ends with an outcome and
\* its locals are gone. The session and student of a request that got as far as
\* the ledger are kept with the outcome, to tell which request it was.
WroteOutcomes == {"ok", "DuplicateScan", "InternalError"}
Reply(q, outcome) ==
    IF outcome \in WroteOutcomes
    THEN [Idle EXCEPT !.kind = q.kind, !.pc = "done", !.outcome = outcome,
                      !.sessionId = q.sessionId, !.studentId = q.studentId]
    ELSE [Idle EXCEPT !.kind = q.kind, !.pc = "done", !.outcome = outcome]

RequestIds == 1..MaxRequests
\* requests are issued in the order of their ids
CanStart(i) ==
    /\ requests[i].pc = "idle"
    /\ \A j \in RequestIds : j < i => requests[j].pc # "idle"

(* --------------------- the lecturer's scan screen ---------------------- *)
\* const [scanned, setScanned] = useState(false), and the same for processing:
\* scanned and processing are the values of the last render, the ones the
\* closure of handleBarCodeScanned and the JSX read; setScanned and
\* setProcessing are the values last given to the setters, which the next
\* render takes over. alerts counts the Alert.alert dialogs that are open.
NoAlerts == [expired |-> 0, invalid |-> 0, marked |-> 0]
ScreenMounted == [scanned |-> FALSE, processing |-> FALSE,
                  setScanned |-> FALSE, setProcessing |-> FALSE, alerts |-> NoAlerts]

\* the store after lecturer l1 created one session of course c1: no record yet
Init ==
    /\ attendanceSessions = {[id |-> 1, courseId |-> "c1", lecturerId |-> "l1", week |-> 1,
                              date |-> "2026-01-27", status |-> "active"]}
    /\ attendanceRecords = EmptyBag
    /\ nextSessionId = 2
    /\ clock = 0
    /\ requests = [i \in RequestIds |-> Idle]
    /\ screen = ScreenMounted

Tick ==
    /\ clock < MaxTicks * TickMs
    /\ clock' = clock + TickMs
    /\ UNCHANGED <<attendanceSessions, attendanceRecords, nextSessionId, requests, screen>>

(* ------------------- POST /api/lecturer/sessions ----------------------- *)
Callers == {"l1", "l2", "s1"}
CourseIds == {"c1", "c2"}
Weeks == {1}
Dates == {"2026-01-27"}

\* session ids are fresh (uuid); a create starts only while an id is left for it
CreatesInFlight ==
    Cardinality({i \in RequestIds : requests[i].kind = "create" /\ requests[i].pc # "done"})

\* variant: the handler without its ownership check
CreateSession_NoOwnerCheck(i, caller, courseId, week, date) ==
    /\ CanStart(i)
    /\ nextSessionId + CreatesInFlight <= MaxSessions
    /\ LET q == [Idle EXCEPT !.kind = "create", !.caller = caller, !.courseId = courseId,
                             !.week = week, !.date = date]
           course == {c \in courses : c.id = courseId}
       IN requests' = [requests EXCEPT ![i] =
            IF role(caller) # "lecturer" THEN Reply(q, "NotLecturer")
            ELSE IF courseId = "" \/ week = 0 \/ date = "" THEN Reply(q, "MissingInput")
            ELSE IF course = {} THEN Reply(q, "CourseNotFound")
            ELSE [q EXCEPT !.pc = "insert"]]
    /\ UNCHANGED <<attendanceSessions, attendanceRecords, nextSessionId, clock, screen>>
\* role check, input validation, db.query.courses.findFirst and the ownership
\* check: the courses table is never written here, so the lookup is taken with
\* the start of the handler
CreateSession(i, caller, courseId, week, date) ==
    /\ CanStart(i)
    /\ nextSessionId + CreatesInFlight <= MaxSessions
    /\ LET q == [Idle EXCEPT !.kind = "create", !.caller = caller, !.courseId = courseId,
                             !.week = week, !.date = date]
           course == {c \in courses : c.id = courseId}
       IN requests' = [requests EXCEPT ![i] =
            IF role(caller) # "lecturer" THEN Reply(q, "NotLecturer")
            ELSE IF courseId = "" \/ week = 0 \/ date = "" THEN Reply(q, "MissingInput")
            ELSE IF course = {} THEN Reply(q, "CourseNotFound")
            ELSE IF \E c \in course : c.lecturerId # caller THEN Reply(q, "NotOwner")
            ELSE [q EXCEPT !.pc = "insert"]]
    /\ UNCHANGED <<attendanceSessions, attendanceRecords, nextSessionId, clock, screen>>

\* variant: the table without its unique index
SessionUniqueViolation_NoIndex(S, courseId, week, date) == FALSE
\* attendance_sessions_unique_idx on (course_id, week, date)
SessionUniqueViolation(S, courseId, week, date) ==
    \E s \in S : s.courseId = courseId /\ s.week = week /\ s.date = date

newSession(id, courseId, lecturerId, week, date) ==
    [id |-> id, courseId |-> courseId, lecturerId |-> lecturerId, week |-> week,
     date |-> date, status |-> "active"]

\* db.insert(attendanceSessions).values({..., status: 'active'}).returning()
CreateInsert(i) ==
    /\ requests[i].kind = "create" /\ requests[i].pc = "insert"
    /\ LET q == requests[i] IN
       IF SessionUniqueViolation(attendanceSessions, q.courseId, q.week, q.date)
       THEN /\ requests' = [requests EXCEPT ![i] = Reply(q, "InternalError")]
            /\ UNCHANGED <<attendanceSessions, nextSessionId>>
       ELSE /\ attendanceSessions' = attendanceSessions \cup
                    {newSession(nextSessionId, q.courseId, q.caller, q.week, q.date)}
            /\ nextSessionId' = nextSessionId + 1
            /\ requests' = [requests EXCEPT ![i] =
                    [Reply(q, "ok") EXCEPT !.sessionId = nextSessionId]]
    /\ UNCHANGED <<attendanceRecords, clock, screen>>

(* ---------------- POST /api/lecturer/sessions/:id/scan ----------------- *)
SessionIds == 1..MaxSessions

\* variant: the handler without its role check
scanStart_AnyRole(q, now) ==
    IF q.qrData.syntax = "empty" THEN Reply(q, "MissingQrData")
    ELSE IF q.qrData.syntax = "garbage" THEN Reply(q, "MalformedPayload")
    ELSE IF OutsideWindow(getTime(q.qrData.timestamp), now)
         THEN Reply([q EXCEPT !.studentId = q.qrData.studentId], "InvalidOrExpired")
    ELSE [q EXCEPT !.studentId = q.qrData.studentId, !.pc = "findSession"]
\* the handler up to its first store statement: role check, qrData check,
\* JSON.parse, destructuring and the freshness check against new Date()
scanStart(q, now) ==
    IF role(q.caller) # "lecturer" THEN Reply(q, "NotLecturer")
    ELSE IF q.qrData.syntax = "empty" THEN Reply(q, "MissingQrData")
    ELSE IF q.qrData.syntax = "garbage" THEN Reply(q, "MalformedPayload")
    ELSE IF OutsideWindow(getTime(q.qrData.timestamp), now)
         THEN Reply([q EXCEPT !.studentId = q.qrData.studentId], "InvalidOrExpired")
    ELSE [q EXCEPT !.studentId = q.qrData.studentId, !.pc = "findSession"]

RecordScan(i, caller, sessionId, qrData) ==
    /\ CanStart(i)
    /\ requests' = [requests EXCEPT ![i] =
            scanStart([Idle EXCEPT !.kind = "scan", !.caller = caller,
                                   !.sessionId = sessionId, !.qrData = qrData], clock)]
    /\ UNCHANGED <<attendanceSessions, attendanceRecords, nextSessionId, clock, screen>>

\* variant: the handler without its status check
scanSessionError_NoStatusCheck(S, q) ==
    LET found == findSession(S, q.sessionId) IN
    IF found = {} THEN "NotFound"
    ELSE IF \E s \in found : s.lecturerId # q.caller THEN "NotOwner"
    ELSE ""
\* variant: the status checked before the owner
scanSessionError_StatusFirst(S, q) ==
    LET found == findSession(S, q.sessionId) IN
    IF found = {} THEN "NotFound"
    ELSE IF \E s \in found : s.status # "active" THEN "SessionNotActive"
    ELSE IF \E s \in found : s.lecturerId # q.caller THEN "NotOwner"
    ELSE ""
\* the session lookup and the ownership and status checks
scanSessionError(S, q) ==
    LET found == findSession(S, q.sessionId) IN
    IF found = {} THEN "NotFound"
    ELSE IF \E s \in found : s.lecturerId # q.caller THEN "NotOwner"
    ELSE IF \E s \in found : s.status # "active" THEN "SessionNotActive"
    ELSE ""

\* the session lookup with its checks, then db.query.user.findFirst({where:
\* eq(user.id, studentId)}): the user table is never written here, so the two
\* lookups are one step
ScanFindSession(i) ==
    /\ requests[i].kind = "scan" /\ requests[i].pc = "findSession"
    /\ LET q == requests[i]
           err == scanSessionError(attendanceSessions, q)
       IN requests' = [requests EXCEPT ![i] =
            IF err # "" THEN Reply(q, err)
            ELSE IF q.studentId \notin Users THEN Reply(q, "UnknownStudent")
            ELSE [q EXCEPT !.pc = "findExisting"]]
    /\ UNCHANGED <<attendanceSessions, attendanceRecords, nextSessionId, clock, screen>>

\* variant: the lookup restricted to present records
existingRecord_PresentOnly(R, sessionId, studentId) ==
    {r \in Rows(R) : r.sessionId = sessionId /\ r.studentId = studentId /\ r.status = "present"}
\* db.query.attendanceRecords.findFirst({where: and(eq(sessionId), eq(studentId))})
existingRecord(R, sessionId, studentId) ==
    {r \in Rows(R) : r.sessionId = sessionId /\ r.studentId = studentId}

ScanFindExisting(i) ==
    /\ requests[i].kind = "scan" /\ requests[i].pc = "findExisting"
    /\ LET q == requests[i]
       IN requests' = [requests EXCEPT ![i] =
            IF existingRecord(attendanceRecords, q.sessionId, q.studentId) # {}
            THEN Reply(q, "DuplicateScan")
            ELSE [q EXCEPT !.pc = "insert"]]
    /\ UNCHANGED <<attendanceSessions, attendanceRecords, nextSessionId, clock, screen>>

\* variant: the scan writes an absent row without scan time
presentRecord_Absent(sessionId, studentId, now) ==
    [sessionId |-> sessionId, studentId |-> studentId, status |-> "absent", scanTime |-> NULL]
\* the row of a scan: status 'present', scanTime new Date()
presentRecord(sessionId, studentId, now) ==
    [sessionId |-> sessionId, studentId |-> studentId, status |-> "present",
     scanTime |-> Timestamp(now)]

\* the insert of the record; a rejected statement throws and the request ends in
\* the error handler (HTTP 500); success returns the stored student's name
ScanInsert(i) ==
    /\ requests[i].kind = "scan" /\ requests[i].pc = "insert"
    /\ LET q == requests[i]
           res == insertRecords(attendanceSessions, attendanceRecords,
                                {presentRecord(q.sessionId, q.studentId, clock)})
       IN /\ attendanceRecords' = res.records
          /\ requests' = [requests EXCEPT ![i] =
                IF res.ok THEN [Reply(q, "ok") EXCEPT !.studentName = name(q.studentId)]
                ELSE Reply(q, "InternalError")]
    /\ UNCHANGED <<attendanceSessions, nextSessionId, clock, screen>>

(* -------------- PUT /api/lecturer/sessions/:id/complete ---------------- *)
\* variant: only present records count as scanned
scannedStudentIds_PresentOnly(R, sessionId) ==
    {r.studentId : r \in {x \in RowsOf(R, sessionId) : x.status = "present"}}
\* new Set(attendanceSession.records.map((r) => r.studentId)), of the records the
\* session query returned
scannedStudentIds(R, sessionId) == {r.studentId : r \in RowsOf(R, sessionId)}

\* selectDistinct ... where courseId and role = 'student': the students with a
\* record in some session of the course (the handler does not use this result)
courseStudents(S, R, courseId) ==
    {u \in Users : /\ role(u) = "student"
                   /\ \E r \in Rows(R) : /\ r.studentId = u
                                         /\ \E s \in S : s.id = r.sessionId /\ s.courseId = courseId}

\* db.query.user.findMany({where: eq(user.role, 'student')})
allStudents == {u \in Users : role(u) = "student"}

\* variant: the back-fill drawn from courseStudents instead of allStudents
unscannedStudents_CourseOnly(S, R, q) ==
    LET found == findSession(S, q.sessionId)
        enrolled == UNION {courseStudents(S, R, s.courseId) : s \in found}
    IN {u \in enrolled : u \notin q.scanned}
\* allStudents.filter((student) => !scannedStudentIds.has(student.id))
unscannedStudents(S, R, q) == {u \in allStudents : u \notin q.scanned}

\* findFirst({where: eq(id, sessionId), with: {course, records}}), the ownership
\* check and the computation of the unscanned students
completeFindSession(S, R, q) ==
    LET found == findSession(S, q.sessionId)
        seen == [q EXCEPT !.scanned = scannedStudentIds(R, q.sessionId)]
    IN
    IF found = {} THEN Reply(q, "NotFound")
    ELSE IF \E s \in found : s.lecturerId # q.caller THEN Reply(q, "NotOwner")
    ELSE [seen EXCEPT !.unscanned = unscannedStudents(S, R, seen), !.scanned = {},
                      !.pc = "insertAbsent"]

\* the role check, the session query and the two student queries: the user table
\* is never written here and the handler reads no other state before the first
\* store write, so they are one step
completeStart(S, R, caller, sessionId) ==
    LET q == [Idle EXCEPT !.kind = "complete", !.caller = caller, !.sessionId = sessionId]
    IN IF role(caller) # "lecturer" THEN Reply(q, "NotLecturer")
       ELSE completeFindSession(S, R, q)

CompleteSession(i, caller, sessionId) ==
    /\ CanStart(i)
    /\ requests' = [requests EXCEPT ![i] =
            completeStart(attendanceSessions, attendanceRecords, caller, sessionId)]
    /\ UNCHANGED <<attendanceSessions, attendanceRecords, nextSessionId, clock, screen>>

\* variant: the back-fill stamps its rows with a scan time
absentRecords_Stamped(sessionId, students) ==
    {[sessionId |-> sessionId, studentId |-> u, status |-> "absent",
      scanTime |-> Timestamp(0)] : u \in students}
\* the rows of the back-fill: status 'absent', scanTime null
absentRecords(sessionId, students) ==
    {[sessionId |-> sessionId, studentId |-> u, status |-> "absent", scanTime |-> NULL] :
        u \in students}

\* variant: the back-fill as an upsert that overwrites the rows it meets
completeInsertAbsent_Overwrite(S, R, q) ==
    LET kept == {r \in Rows(R) : ~(r.sessionId = q.sessionId /\ r.studentId \in q.unscanned)}
        res == insertRecords(S, [r \in kept |-> R[r]], absentRecords(q.sessionId, q.unscanned))
    IN IF res.ok THEN [records |-> res.records, request |-> [q EXCEPT !.pc = "updateStatus"]]
       ELSE [records |-> R, request |-> Reply(q, "InternalError")]
\* if (unscannedStudents.length > 0) await db.insert(attendanceRecords).values([...]);
\* a rejected statement throws and the request ends in the error handler (HTTP 500)
completeInsertAbsent(S, R, q) ==
    LET res == insertRecords(S, R, absentRecords(q.sessionId, q.unscanned)) IN
    IF q.unscanned = {} THEN [records |-> R, request |-> [q EXCEPT !.pc = "updateStatus"]]
    ELSE IF res.ok THEN [records |-> res.records, request |-> [q EXCEPT !.pc = "updateStatus"]]
    ELSE [records |-> R, request |-> Reply(q, "InternalError")]

CompleteInsertAbsent(i) ==
    /\ requests[i].kind = "complete" /\ requests[i].pc = "insertAbsent"
    /\ LET res == completeInsertAbsent(attendanceSessions, attendanceRecords, requests[i])
       IN /\ attendanceRecords' = res.records
          /\ requests' = [requests EXCEPT ![i] = res.request]
    /\ UNCHANGED <<attendanceSessions, nextSessionId, clock, screen>>

\* variant: the update flips the status
updateStatus_Toggle(S, sessionId) ==
    {IF s.id = sessionId
     THEN [s EXCEPT !.status = IF s.status = "active" THEN "completed" ELSE "active"]
     ELSE s : s \in S}
\* db.update(attendanceSessions).set({status: 'completed'}).where(eq(id, sessionId))
updateStatus(S, sessionId) ==
    {IF s.id = sessionId THEN [s EXCEPT !.status = "completed"] ELSE s : s \in S}

\* the status update and the success reply with absentCount: unscannedStudents.length
completeUpdateStatus(S, q) ==
    [sessions |-> updateStatus(S, q.sessionId),
     request |-> [Reply(q, "ok") EXCEPT !.absentCount = Cardinality(q.unscanned)]]

CompleteUpdateStatus(i) ==
    /\ requests[i].kind = "complete" /\ requests[i].pc = "updateStatus"
    /\ LET res == completeUpdateStatus(attendanceSessions, requests[i])
       IN /\ attendanceSessions' = res.sessions
          /\ requests' = [requests EXCEPT ![i] = res.request]
    /\ UNCHANGED <<attendanceRecords, nextSessionId, clock, screen>>

\* the handler run from start to reply with no other request in between
CompleteRun(S, R, caller, sessionId) ==
    LET q0 == completeStart(S, R, caller, sessionId)
        ins == completeInsertAbsent(S, R, q0)
        upd == completeUpdateStatus(S, ins.request)
    IN IF q0.pc = "done" THEN [sessions |-> S, records |-> R, request |-> q0]
       ELSE IF ins.request.pc = "done"
            THEN [sessions |-> S, records |-> ins.records, request |-> ins.request]
       ELSE [sessions |-> upd.sessions, records |-> ins.records, request |-> upd.request]

(* ------------- the session delete of the statistics screen ------------- *)
\* variant: the table without its delete policy
deletableBy_NoPolicy(S, caller) == S
\* create policy ... for delete to authenticated using (auth.uid()::text =
\* lecturer_id): the rows of attendance_sessions a delete of `caller` can see
deletableBy(S, caller) == {s \in S : s.lecturerId = caller}

\* supabase.from('attendance_sessions').delete().eq('id', sessionId): the rows the
\* policy hides are not deleted and no error is returned for them; the records
\* go with a deleted session (ON DELETE cascade)
DeleteSession(caller, sessionId) ==
    LET hit == findSession(deletableBy(attendanceSessions, caller), sessionId) IN
    /\ attendanceSessions' =
            IF hit = {} THEN attendanceSessions ELSE deleteSession(attendanceSessions, sessionId)
    /\ attendanceRecords' =
            IF hit = {} THEN attendanceRecords ELSE cascadeRecords(attendanceRecords, sessionId)
    /\ UNCHANGED <<nextSessionId, clock, requests, screen>>

(* ------------------- GET /api/lecturer/statistics ---------------------- *)
\* parseInt(week) of the query string: the integer of a decimal text
parseInt(text) == CASE text = "1" -> 1
                    [] text = "2" -> 2
                    [] text = "3" -> 3
                    [] OTHER -> NaN

\* variant: the conditions without the lecturer's id
statsConditions_AnyLecturer(s, lecturerId, courseId, week) ==
    /\ courseId # "" => s.courseId = courseId
    /\ week # "" => s.week = parseInt(week)
\* conditions: the sessions of the lecturer, narrowed by courseId and by week
\* when the query string has them (an empty text is falsy)
statsConditions(s, lecturerId, courseId, week) ==
    /\ s.lecturerId = lecturerId
    /\ courseId # "" => s.courseId = courseId
    /\ week # "" => s.week = parseInt(week)

\* select ... from attendance_records inner join attendance_sessions inner join
\* user where and(...conditions): the records that have a session matching the
\* conditions and a user row
statsRecords(S, R, lecturerId, courseId, week) ==
    {r \in Rows(R) : /\ r.studentId \in Users
                     /\ \E s \in S : /\ s.id = r.sessionId
                                      /\ statsConditions(s, lecturerId, courseId, week)}

\* records.filter((r) => r.status === status): the rows of one status, and the
\* length of that list (one element per stored row)
statsList(rows, status) == {r \in rows : r.status = status}
listLength(R, rows) ==
    LET RECURSIVE Sum(_)
        Sum(X) == IF X = {} THEN 0
                  ELSE LET x == CHOOSE y \in X : TRUE IN CopiesIn(x, R) + Sum(X \ {x})
    IN Sum(rows)

\* variant: the quotient truncated
MathRound_Floor(num, den) == num \div den
\* Math.round(num / den) for num >= 0, den > 0: the nearest integer, a half
\* rounded up
MathRound(num, den) == (2 * num + den) \div (2 * den)

\* variant: the quotient taken without the guard (0 / 0 is NaN in the code)
percentageOf_NoGuard(presentCount, totalStudents) ==
    IF totalStudents > 0 THEN MathRound(presentCount * 100, totalStudents) ELSE NaN
\* totalStudents > 0 ? Math.round((presentCount / totalStudents) * 100) : 0
percentageOf(presentCount, totalStudents) ==
    IF totalStudents > 0 THEN MathRound(presentCount * 100, totalStudents) ELSE 0

\* list.map((r) => ({studentId: r.studentId, name: r.studentName})): the entries
\* of a list as a bag, one copy per row
listEntries(R, rows) ==
    LET ids == {r.studentId : r \in rows}
    IN [e \in {[studentId |-> u, name |-> name(u)] : u \in ids} |->
            listLength(R, {r \in rows : r.studentId = e.studentId})]

\* variant: the list returned as it was filtered
dedupe_Keep(R, rows) == listEntries(R, rows)
\* Array.from(new Map(list.map((p) => [p.studentId, p])).values()): one entry
\* {studentId, name} per studentId of the list
dedupe(R, rows) == SetToBag(BagToSet(listEntries(R, rows)))

\* the body of the reply, computed from the rows of the query
computeStatistics(S, R, lecturerId, courseId, week) ==
    LET records == statsRecords(S, R, lecturerId, courseId, week)
        presentList == statsList(records, "present")
        absentList == statsList(records, "absent")
        totalStudents == Cardinality({r.studentId : r \in presentList \cup absentList})
        presentCount == listLength(R, presentList)
        absentCount == listLength(R, absentList)
    IN [totalStudents |-> totalStudents, presentCount |-> presentCount,
        absentCount |-> absentCount,
        percentage |-> percentageOf(presentCount, totalStudents),
        presentList |-> dedupe(R, presentList), absentList |-> dedupe(R, absentList)]

\* the handler: role check, one query, the reply
GetStatistics(i, caller, courseId, week) ==
    /\ CanStart(i)
    /\ LET q == [Idle EXCEPT !.kind = "statistics", !.caller = caller] IN
       requests' = [requests EXCEPT ![i] =
            IF role(caller) # "lecturer" THEN Reply(q, "NotLecturer")
            ELSE [Reply(q, "ok") EXCEPT
                    !.stats = computeStatistics(attendanceSessions, attendanceRecords,
                                                caller, courseId, week)]]
    /\ UNCHANGED <<attendanceSessions, attendanceRecords, nextSessionId, clock, screen>>

(* --------------------------- specification ----------------------------- *)
Next ==
    \/ Tick
    \/ \E i \in RequestIds, caller \in Callers, courseId \in CourseIds, week \in Weeks,
          date \in Dates : CreateSession(i, caller, courseId, week, date)
    \/ \E i \in RequestIds : CreateInsert(i)
    \/ \E i \in RequestIds, caller \in Callers, sessionId \in SessionIds, qrData \in QrInputs :
          RecordScan(i, caller, sessionId, qrData)
    \/ \E i \in RequestIds : ScanFindSession(i)
    \/ \E i \in RequestIds : ScanFindExisting(i)
    \/ \E i \in RequestIds : ScanInsert(i)
    \/ \E i \in RequestIds, caller \in Callers, sessionId \in SessionIds :
          CompleteSession(i, caller, sessionId)
    \/ \E i \in RequestIds : CompleteInsertAbsent(i)
    \/ \E i \in RequestIds : CompleteUpdateStatus(i)
    \/ \E caller \in Callers, s \in attendanceSessions : DeleteSession(caller, s.id)

Spec == Init /\ [][Next]_vars

(* ------------------- the freshness check in isolation ------------------ *)
\* issue times straddling a second boundary of the ISO text, and validation
\* times around both ends of the window
FreshIssued == {998 + k : k \in 0..FineRange}
FreshClocks == FreshIssued \cup {30 * 1000 + t : t \in FreshIssued}
FreshQrInputs == {QrObject(s, name(s), toISOString(t)) : s \in Students, t \in FreshIssued}

InitFresh ==
    /\ attendanceSessions = {[id |-> 1, courseId |-> "c1", lecturerId |-> "l1", week |-> 1,
                              date |-> "2026-01-27", status |-> "active"]}
    /\ attendanceRecords = EmptyBag
    /\ nextSessionId = 2
    /\ clock \in FreshClocks
    /\ requests = [i \in RequestIds |-> Idle]
    /\ screen = ScreenMounted

NextFresh == \E qrData \in FreshQrInputs : RecordScan(1, "l1", 1, qrData)

SpecFresh == InitFresh /\ [][NextFresh]_vars

(* ------------------- the payload checks in isolation ------------------- *)
\* the payloads of the decoding specification: text JSON.parse rejects, and
\* objects with the id of a stored student, of a stored lecturer or of nobody,
\* with an ISO timestamp or with the timestamp field missing or unparseable
DecodeQrInputs ==
    {QrGarbage}
    \cup {QrObject(s, name(s), ts) : s \in Students \cup {"l2", "ghost"},
                                    ts \in {InvalidDate, toISOString(0)}}

\* scans of the owner on session 1, each run to its reply
NextDecode ==
    \/ Tick
    \/ \E i \in RequestIds, qrData \in DecodeQrInputs : RecordScan(i, "l1", 1, qrData)
    \/ \E i \in RequestIds : ScanFindSession(i)
    \/ \E i \in RequestIds : ScanFindExisting(i)
    \/ \E i \in RequestIds : ScanInsert(i)

SpecDecode == Init /\ [][NextDecode]_vars

(* ------------------ session creation in isolation ---------------------- *)
\* the bodies of the create requests: a course that does not exist, and week 0
\* for a body without week
CreateCourseIds == CourseIds \cup {"c9"}
CreateWeeks == {0, 1, 2}

\* the store before any session was created
InitCreate ==
    /\ attendanceSessions = {}
    /\ attendanceRecords = EmptyBag
    /\ nextSessionId = 1
    /\ clock = 0
    /\ requests = [i \in RequestIds |-> Idle]
    /\ screen = ScreenMounted

\* creates, concurrent while session ids are left, and deletes of the sessions made
NextCreate ==
    \/ \E i \in RequestIds, caller \in Callers, courseId \in CreateCourseIds,
          week \in CreateWeeks, date \in Dates : CreateSession(i, caller, courseId, week, date)
    \/ \E i \in RequestIds : CreateInsert(i)
    \/ \E caller \in Callers, sessionId \in SessionIds : DeleteSession(caller, sessionId)

SpecCreate == InitCreate /\ [][NextCreate]_vars

(* ---------------------- statistics in isolation ------------------------ *)
\* the users a record can refer to: the students, and a lecturer (the scan's
\* user lookup takes any user id)
StatsPersons == Students \cup {"l2"}

\* what the ledger can hold of one session: before the back-fill every person
\* is scanned or has no record; after it every student has a record, present
\* or absent; a lecturer has no absent record (the back-fill is for students)
StatsMarks ==
    {m \in [StatsPersons -> {"none", "present", "absent"}] :
        /\ m["l2"] # "absent"
        /\ (\E u \in Students : m[u] = "absent") => (\A u \in Students : m[u] # "none")}

\* the sessions of lecturer l1 for course c1, one per week, and their records
statsSession(id, m) ==
    [id |-> id, courseId |-> "c1", lecturerId |-> "l1", week |-> id, date |-> "2026-01-27",
     status |-> IF \E u \in Students : m[u] = "absent" THEN "completed" ELSE "active"]
statsLedger(id, m) ==
    {presentRecord(id, u, 0) : u \in {x \in StatsPersons : m[x] = "present"}}
    \cup absentRecords(id, {x \in StatsPersons : m[x] = "absent"})

InitStats ==
    \E marks \in [SessionIds -> StatsMarks] :
        /\ attendanceSessions = {statsSession(id, marks[id]) : id \in SessionIds}
        /\ attendanceRecords = SetToBag(UNION {statsLedger(id, marks[id]) : id \in SessionIds})
        /\ nextSessionId = MaxSessions + 1
        /\ clock = 0
        /\ requests = [i \in RequestIds |-> Idle]
        /\ screen = ScreenMounted

\* the query strings: no filter, a course, a week
StatsCourseIds == {""} \cup CourseIds
StatsWeeks == {"", "1", "2", "3"}

NextStats ==
    \E caller \in Callers, courseId \in StatsCourseIds, week \in StatsWeeks :
        GetStatistics(1, caller, courseId, week)

SpecStats == InitStats /\ [][NextStats]_vars

(* ------------- statistics over sessions of two lecturers --------------- *)
\* what the ledger holds of the students of one session (as StatsMarks, for
\* the students alone)
OwnerMarks ==
    {m \in [Students -> {"none", "present", "absent"}] :
        (\E u \in Students : m[u] = "absent") => (\A u \in Students : m[u] # "none")}

\* one session per week, each of a course and its lecturer
ownerSession(id, course, m) ==
    [id |-> id, courseId |-> course.id, lecturerId |-> course.lecturerId, week |-> id,
     date |-> "2026-01-27",
     status |-> IF \E u \in Students : m[u] = "absent" THEN "completed" ELSE "active"]
ownerLedger(id, m) ==
    {presentRecord(id, u, 0) : u \in {x \in Students : m[x] = "present"}}
    \cup absentRecords(id, {x \in Students : m[x] = "absent"})

InitStatsOwners ==
    \E marks \in [SessionIds -> OwnerMarks], of \in [SessionIds -> courses] :
        /\ attendanceSessions = {ownerSession(id, of[id], marks[id]) : id \in SessionIds}
        /\ attendanceRecords = SetToBag(UNION {ownerLedger(id, marks[id]) : id \in SessionIds})
        /\ nextSessionId = MaxSessions + 1
        /\ clock = 0
        /\ requests = [i \in RequestIds |-> Idle]
        /\ screen = ScreenMounted

SpecStatsOwners == InitStatsOwners /\ [][NextStats]_vars

(* ------------- issuing a payload and scanning it unchanged ------------- *)
\* user.email: unique, and not the user's id (ids are generated by the
\* authentication library)
email(u) == CASE u = "l1" -> "one@uni.example"
              [] u = "l2" -> "two@uni.example"
              [] u = "s1" -> "alice@uni.example"
              [] u = "s2" -> "bob@uni.example"
              [] OTHER -> ""

\* GET /api/student/qr: JSON.stringify({studentId: userId, name: userName,
\* timestamp: new Date().toISOString()})
qrDataObject(userId, now) == QrObject(userId, name(userId), toISOString(now))

\* the handler: role check, then the reply {studentId, name, timestamp, qrData};
\* it reads and writes no table
GetStudentQr(i, caller) ==
    /\ CanStart(i)
    /\ LET q == [Idle EXCEPT !.kind = "qr", !.caller = caller] IN
       requests' = [requests EXCEPT ![i] =
            IF role(caller) # "student" THEN Reply(q, "NotStudent")
            ELSE [Reply(q, "ok") EXCEPT !.studentId = caller,
                                        !.studentName = name(caller),
                                        !.qrData = qrDataObject(caller, clock)]]
    /\ UNCHANGED <<attendanceSessions, attendanceRecords, nextSessionId, clock, screen>>

\* the student screen: generateQRData builds the payload on the device, every
\* 5 s, with studentId: user?.email and the device's time
generateQRData(user, now) == QrObject(email(user), name(user), toISOString(now))

\* one refresh of the screen of a signed-in student: the payload shown
ShowStudentQr(i, user) ==
    /\ CanStart(i)
    /\ role(user) = "student"
    /\ LET q == [Idle EXCEPT !.kind = "screen", !.caller = user] IN
       requests' = [requests EXCEPT ![i] =
            [Reply(q, "ok") EXCEPT !.studentId = user, !.studentName = name(user),
                                   !.qrData = generateQRData(user, clock)]]
    /\ UNCHANGED <<attendanceSessions, attendanceRecords, nextSessionId, clock, screen>>

\* the time between producing a payload and validating it: refresh periods of
\* 5 s, and delays that reach the end of the 30 s window and pass it by 1 ms
IssueDelays == {5 * 1000, 25 * 1000, 25 * 1000 + 1}
IssueStart == 1000
Elapse(d) ==
    /\ clock + d <= IssueStart + 30 * 1000 + 1
    /\ clock' = clock + d
    /\ UNCHANGED <<attendanceSessions, attendanceRecords, nextSessionId, requests, screen>>

\* session 1 active, with no record or with the record of an earlier scan of s1
InitIssue ==
    /\ attendanceSessions = {[id |-> 1, courseId |-> "c1", lecturerId |-> "l1", week |-> 1,
                              date |-> "2026-01-27", status |-> "active"]}
    /\ attendanceRecords \in {EmptyBag, SetToBag({presentRecord(1, "s1", 0)})}
    /\ nextSessionId = 2
    /\ clock \in {IssueStart - 1, IssueStart}
    /\ requests = [i \in RequestIds |-> Idle]
    /\ screen = ScreenMounted

\* request 1 produces a payload, request 2 is the owner's scan of that payload
NextIssue ==
    \/ \E caller \in Callers : GetStudentQr(1, caller)
    \/ \E user \in Students : ShowStudentQr(1, user)
    \/ \E d \in IssueDelays : Elapse(d)
    \/ requests[1].outcome = "ok" /\ RecordScan(2, "l1", 1, requests[1].qrData)
    \/ ScanFindSession(2)
    \/ ScanFindExisting(2)
    \/ ScanInsert(2)

SpecIssue == InitIssue /\ [][NextIssue]_vars

(* ---------------- a scan racing with the completion -------------------- *)
\* fresh payloads with the id of a student and with the id of a lecturer
RaceQrInputs == {QrObject(u, name(u), toISOString(0)) : u \in {"s1", "l2"}}

\* scans and completions of the owner on session 1, interleaved
NextRace ==
    \/ \E i \in RequestIds, qrData \in RaceQrInputs : RecordScan(i, "l1", 1, qrData)
    \/ \E i \in RequestIds : ScanFindSession(i)
    \/ \E i \in RequestIds : ScanFindExisting(i)
    \/ \E i \in RequestIds : ScanInsert(i)
    \/ \E i \in RequestIds : CompleteSession(i, "l1", 1)
    \/ \E i \in RequestIds : CompleteInsertAbsent(i)
    \/ \E i \in RequestIds : CompleteUpdateStatus(i)

SpecRace == Init /\ [][NextRace]_vars

(* ------------- the four role-gated handlers, every caller -------------- *)
\* session 1 of lecturer l1 is active, with no record or with a scan of s1
InitRoles ==
    /\ attendanceSessions = {[id |-> 1, courseId |-> "c1", lecturerId |-> "l1", week |-> 1,
                              date |-> "2026-01-27", status |-> "active"]}
    /\ attendanceRecords \in {EmptyBag, SetToBag({presentRecord(1, "s1", 0)})}
    /\ nextSessionId = 2
    /\ clock = 0
    /\ requests = [i \in RequestIds |-> Idle]
    /\ screen = ScreenMounted

RolesQrInputs == {QrObject(u, name(u), toISOString(0)) : u \in Students}
RolesWeeks == {1, 2}

NextRoles ==
    \/ \E i \in RequestIds, caller \in Callers, week \in RolesWeeks, date \in Dates :
          CreateSession(i, caller, "c1", week, date)
    \/ \E i \in RequestIds : CreateInsert(i)
    \/ \E i \in RequestIds, caller \in Callers, qrData \in RolesQrInputs :
          RecordScan(i, caller, 1, qrData)
    \/ \E i \in RequestIds : ScanFindSession(i)
    \/ \E i \in RequestIds : ScanFindExisting(i)
    \/ \E i \in RequestIds : ScanInsert(i)
    \/ \E i \in RequestIds, caller \in Callers : CompleteSession(i, caller, 1)
    \/ \E i \in RequestIds : CompleteInsertAbsent(i)
    \/ \E i \in RequestIds : CompleteUpdateStatus(i)
    \/ \E i \in RequestIds, caller \in Callers : GetStudentQr(i, caller)

SpecRoles == InitRoles /\ [][NextRoles]_vars

(* ------------------ the scan screen and its barcode events ------------- *)
MaxAlerts == 4
OpenAlerts(sc) == sc.alerts.expired + sc.alerts.invalid + sc.alerts.marked

\* diffSeconds > 30, with diffSeconds = (now - qrTimestamp) / 1000; false for NaN
diffExpired(qrTimestamp, now) == qrTimestamp # NaN /\ now - qrTimestamp > 30 * 1000

\* handleBarCodeScanned, which has no await and runs to its end in one piece:
\* the guard on the closure's scanned and processing, both setters to true,
\* JSON.parse, the age check, and then "QR Code Expired" or "Invalid QR Code"
\* with both setters back to false, or "Attendance Marked", whose OK button
\* holds the reset
handleBarCodeScanned(sc, data, now) ==
    IF sc.scanned \/ sc.processing THEN sc
    ELSE IF data.syntax # "object"
         THEN [sc EXCEPT !.setScanned = FALSE, !.setProcessing = FALSE,
                         !.alerts.invalid = @ + 1]
    ELSE IF diffExpired(getTime(data.timestamp), now)
         THEN [sc EXCEPT !.setScanned = FALSE, !.setProcessing = FALSE,
                         !.alerts.expired = @ + 1]
    ELSE [sc EXCEPT !.setScanned = TRUE, !.setProcessing = TRUE, !.alerts.marked = @ + 1]

\* onBarcodeScanned={scanned ? undefined : handleBarCodeScanned}: the camera
\* delivers a barcode to the handler of the last render. Nothing in the
\* component orders the next barcode after the render that follows a setter.
BarcodeScanned(data) ==
    /\ ~screen.scanned
    /\ OpenAlerts(screen) < MaxAlerts
    /\ screen' = handleBarCodeScanned(screen, data, clock)
    /\ UNCHANGED <<attendanceSessions, attendanceRecords, nextSessionId, clock, requests>>

\* the render React schedules after a setter was called with a new value
Render ==
    /\ <<screen.setScanned, screen.setProcessing>> # <<screen.scanned, screen.processing>>
    /\ screen' = [screen EXCEPT !.scanned = screen.setScanned,
                                !.processing = screen.setProcessing]
    /\ UNCHANGED <<attendanceSessions, attendanceRecords, nextSessionId, clock, requests>>

\* the user closes a dialog: onPress of "Attendance Marked" calls both setters
\* with false, the other two dialogs have the default button
AlertKinds == {"expired", "invalid", "marked"}
PressOk(kind) ==
    /\ screen.alerts[kind] > 0
    /\ screen' = IF kind = "marked"
                 THEN [screen EXCEPT !.setScanned = FALSE, !.setProcessing = FALSE,
                                     !.alerts.marked = @ - 1]
                 ELSE [screen EXCEPT !.alerts[kind] = @ - 1]
    /\ UNCHANGED <<attendanceSessions, attendanceRecords, nextSessionId, clock, requests>>

\* the codes held to the camera: text that is no JSON, a payload issued at
\* time 0, and JSON without a usable timestamp
ScreenQrInputs ==
    {QrGarbage, QrObject("s1", name("s1"), toISOString(0)),
     QrObject("s1", name("s1"), InvalidDate)}

NextScreen ==
    \/ Tick
    \/ \E data \in ScreenQrInputs : BarcodeScanned(data)
    \/ Render
    \/ \E kind \in AlertKinds : PressOk(kind)

\* React runs a scheduled render; the user acknowledges the dialogs
SpecScreen ==
    /\ Init /\ [][NextScreen]_vars
    /\ WF_vars(Render)
    /\ \A kind \in AlertKinds : WF_vars(PressOk(kind))

(* ------------------------------ claims --------------------------------- *)
ScanDone(i) == requests[i].kind = "scan" /\ requests[i].pc = "done"
SamePair(i, j) ==
    /\ requests[i].sessionId = requests[j].sessionId
    /\ requests[i].studentId = requests[j].studentId

\* C1: in every reachable state the ledger holds at most one attendance record
\* per (sessionId, studentId) pair, whatever the interleaving of scan and
\* complete requests.
C1_OneRecordPerPair ==
    \A r \in Rows(attendanceRecords) : CountFor(attendanceRecords, r.sessionId, r.studentId) = 1

\* two scans of one student in one session raced past the existence check and
\* the index refused the second insert: one record is stored
C1_Witness ==
    \E i, j \in RequestIds :
        /\ i # j /\ ScanDone(i) /\ ScanDone(j) /\ SamePair(i, j)
        /\ requests[i].outcome = "ok" /\ requests[j].outcome = "InternalError"
        /\ CountFor(attendanceRecords, requests[i].sessionId, requests[i].studentId) = 1

\* C2 (as claimed): of two scan requests for the same student and the same
\* active session that both reach the ledger, when one succeeds the other ends
\* with DuplicateScan and with no other failure kind.
C2_LoserGetsDuplicateScan ==
    \A i, j \in RequestIds :
        ( /\ i # j /\ ScanDone(i) /\ ScanDone(j) /\ SamePair(i, j)
          /\ \E s \in attendanceSessions : s.id = requests[i].sessionId /\ s.status = "active"
          /\ requests[i].outcome = "ok"
          /\ requests[j].outcome \in WroteOutcomes )
        => requests[j].outcome = "DuplicateScan"

CompleteOk(i) ==
    requests[i].kind = "complete" /\ requests[i].pc = "done" /\ requests[i].outcome = "ok"
Exists(sessionId) == findSession(attendanceSessions, sessionId) # {}
HasStatus(sessionId, status) == \E s \in attendanceSessions : s.id = sessionId /\ s.status = status

\* C4: after a Complete request on a session returned success, every enrolled
\* student (every user with role student) has exactly one record, present or
\* absent, in that session, for as long as the session exists.
C4_CompleteLeavesNoStudentUnrecorded ==
    \A i \in RequestIds :
        (CompleteOk(i) /\ Exists(requests[i].sessionId)) =>
            \A u \in allStudents : CountFor(attendanceRecords, requests[i].sessionId, u) = 1

\* a completed session with one scanned and one back-filled student
C4_Witness ==
    \E i \in RequestIds :
        /\ CompleteOk(i) /\ requests[i].absentCount = 1
        /\ HasStatus(requests[i].sessionId, "completed")
        /\ \E r \in RowsOf(attendanceRecords, requests[i].sessionId) : r.status = "present"
        /\ \E r \in RowsOf(attendanceRecords, requests[i].sessionId) : r.status = "absent"

\* C5: Complete run twice by the owner on a session, with no other request in
\* between, succeeds both times and leaves the record set and the status of one
\* run; the first call's absentCount is the number of students without a record
\* of any status when it ran, the second call's absentCount is 0.
C5_CompleteTwiceAsOnce ==
    \A s \in attendanceSessions :
        LET once == CompleteRun(attendanceSessions, attendanceRecords, s.lecturerId, s.id)
            twice == CompleteRun(once.sessions, once.records, s.lecturerId, s.id)
        IN /\ once.request.outcome = "ok" /\ twice.request.outcome = "ok"
           /\ twice.sessions = once.sessions /\ twice.records = once.records
           /\ \E c \in once.sessions : c.id = s.id /\ c.status = "completed"
           /\ once.request.absentCount =
                 Cardinality({u \in allStudents : CountFor(attendanceRecords, s.id, u) = 0})
           /\ twice.request.absentCount = 0

\* two Complete requests on one session both succeeded: the one that ran first
\* back-filled, the other found nobody left
C5_Witness ==
    \E i, j \in RequestIds :
        /\ i # j /\ CompleteOk(i) /\ CompleteOk(j)
        /\ requests[i].sessionId = requests[j].sessionId
        /\ requests[i].absentCount = Cardinality(allStudents) /\ requests[j].absentCount = 0
        /\ HasStatus(requests[i].sessionId, "completed")

\* C6 (as claimed): the back-fill and the status change are one atomic unit: no
\* reachable state has a session that holds back-filled absent records while
\* its status is still active.
C6_BackfillAtomicWithStatus ==
    \A s \in attendanceSessions :
        s.status = "active" => \A r \in RowsOf(attendanceRecords, s.id) : r.status # "absent"

\* C7: a session is created with status active, the only status change of any
\* step is active to completed, and a completed session that still exists is
\* completed after every step (session ids are never handed out twice).
C7_StatusOneWay ==
    [][/\ \A n \in attendanceSessions' :
            (\A o \in attendanceSessions : o.id # n.id) =>
                n.status = "active" /\ n.id = nextSessionId /\ nextSessionId' > nextSessionId
       /\ \A o \in attendanceSessions, n \in attendanceSessions' :
            o.id = n.id => \/ n.status = o.status
                           \/ o.status = "active" /\ n.status = "completed"]_vars

\* a session made by a Create request was later completed
C7_Witness ==
    \E i, j \in RequestIds :
        /\ requests[i].kind = "create" /\ requests[i].pc = "done" /\ requests[i].outcome = "ok"
        /\ CompleteOk(j) /\ requests[j].sessionId = requests[i].sessionId
        /\ HasStatus(requests[i].sessionId, "completed")

OwnedAndCompleted(caller, sessionId) ==
    \E s \in attendanceSessions :
        s.id = sessionId /\ s.lecturerId = caller /\ s.status = "completed"
PayloadOutcomes == {"MissingQrData", "MalformedPayload", "InvalidOrExpired"}

\* C8 (as amended): a RecordScan by the owning lecturer on a session whose
\* status is completed never changes the record set. It fails with
\* SessionNotActive when its payload is present, parses and passes the
\* freshness check; a payload that does not is rejected first, with the
\* payload's own error.
C8_CompletedSessionRejectsScan ==
    [][/\ \A i \in RequestIds :
            (requests[i].pc = "idle" /\ requests'[i].kind = "scan") =>
            \A sessionId \in SessionIds, caller \in Callers, qrData \in QrInputs :
                (OwnedAndCompleted(caller, sessionId) /\ RecordScan(i, caller, sessionId, qrData))
                => /\ attendanceRecords' = attendanceRecords
                   /\ requests'[i].pc = "done" => requests'[i].outcome \in PayloadOutcomes
       /\ \A i \in RequestIds :
            ( /\ requests[i].kind = "scan" /\ requests[i].pc = "findSession"
              /\ requests'[i] # requests[i]
              /\ OwnedAndCompleted(requests[i].caller, requests[i].sessionId) )
            => /\ requests'[i].pc = "done" /\ requests'[i].outcome = "SessionNotActive"
               /\ attendanceRecords' = attendanceRecords
               /\ attendanceSessions' = attendanceSessions]_vars

\* a scan with a good payload was refused on a completed session
C8_Witness ==
    \E i, j \in RequestIds :
        /\ ScanDone(i) /\ requests[i].outcome = "SessionNotActive"
        /\ CompleteOk(j) /\ HasStatus(requests[j].sessionId, "completed")

\* C8 (as claimed): whatever the payload, a RecordScan by the owning lecturer on
\* a completed session is not rejected with any kind but SessionNotActive.
C8_WhateverThePayload ==
    [][\A i \in RequestIds :
         (requests[i].pc = "idle" /\ requests'[i].kind = "scan") =>
         \A sessionId \in SessionIds, caller \in Callers, qrData \in QrInputs :
            (OwnedAndCompleted(caller, sessionId) /\ RecordScan(i, caller, sessionId, qrData))
            => /\ attendanceRecords' = attendanceRecords
               /\ requests'[i].pc = "done" => requests'[i].outcome = "SessionNotActive"]_vars

\* C9: a RecordScan that reaches the ledger for a student who already has a
\* record (present or absent) in the session is rejected with DuplicateScan and
\* writes nothing; and no step changes or removes a stored record while its
\* session exists, so the first record of a student in a session stays as it is.
C9_FirstRecordWins ==
    [][/\ \A i \in RequestIds :
            ( /\ requests[i].kind = "scan" /\ requests[i].pc = "findExisting"
              /\ requests'[i] # requests[i]
              /\ \E r \in RowsOf(attendanceRecords, requests[i].sessionId) :
                    r.studentId = requests[i].studentId )
            => /\ requests'[i].pc = "done" /\ requests'[i].outcome = "DuplicateScan"
               /\ attendanceRecords' = attendanceRecords
       /\ \A r \in Rows(attendanceRecords) :
            findSession(attendanceSessions', r.sessionId) # {}
            => {n \in Rows(attendanceRecords') :
                    n.sessionId = r.sessionId /\ n.studentId = r.studentId} = {r}]_vars

\* a second scan of a scanned student was rejected and the record is the first scan's
C9_Witness ==
    \E i, j \in RequestIds :
        /\ i # j /\ ScanDone(i) /\ ScanDone(j) /\ SamePair(i, j)
        /\ requests[i].outcome = "ok" /\ requests[j].outcome = "DuplicateScan"
        /\ \E r \in RowsOf(attendanceRecords, requests[i].sessionId) :
              r.studentId = requests[i].studentId /\ r.status = "present" /\ r.scanTime = Timestamp(0)
        /\ clock > 0

\* C10: a successful RecordScan adds exactly one record, for the requested
\* session and the studentId of the payload, with status present and scanTime
\* the server's current time; it changes no other record and no session, and it
\* returns the display name stored for the student, not the payload's.
C10_ScanAddsOnePresentRecord ==
    [][\A i \in RequestIds :
         ( /\ requests[i].kind = "scan" /\ requests[i].pc # "done"
           /\ requests'[i].pc = "done" /\ requests'[i].outcome = "ok" )
         => LET added == [sessionId |-> requests[i].sessionId,
                          studentId |-> requests[i].qrData.studentId,
                          status |-> "present", scanTime |-> Timestamp(clock)]
            IN /\ CountFor(attendanceRecords, added.sessionId, added.studentId) = 0
               /\ attendanceRecords' = attendanceRecords (+) SetToBag({added})
               /\ attendanceSessions' = attendanceSessions
               /\ requests'[i].studentName = name(added.studentId)
               /\ requests'[i].studentName # requests[i].qrData.name]_vars

\* a scan succeeded after the clock had advanced past the payload's issue time
C10_Witness ==
    \E i \in RequestIds :
        /\ ScanDone(i) /\ requests[i].outcome = "ok" /\ requests[i].studentName = "Alice"
        /\ \E r \in RowsOf(attendanceRecords, requests[i].sessionId) :
              r.studentId = "s1" /\ r.status = "present" /\ r.scanTime = Timestamp(TickMs)

\* a payload the decoder of the claim refuses: not a JSON object, or an object
\* whose timestamp is missing or is no date
Undecodable(qrData) == qrData.syntax # "object" \/ getTime(qrData.timestamp) = NaN

\* C11 (as claimed): a RecordScan whose payload does not parse, or parses but
\* has a missing or unparseable timestamp, ends with MalformedPayload at the
\* payload checks, and no step of such a request changes the record set.
C11_BadPayloadIsMalformed ==
    [][\A i \in RequestIds :
         /\ (requests[i].kind = "scan" /\ requests[i].pc # "done" /\ requests'[i] # requests[i]
                /\ Undecodable(requests[i].qrData))
            => attendanceRecords' = attendanceRecords
         /\ (requests[i].pc = "idle" /\ requests'[i].kind = "scan") =>
            \A qrData \in DecodeQrInputs :
                (Undecodable(qrData) /\ RecordScan(i, "l1", 1, qrData))
                => requests'[i].pc = "done" /\ requests'[i].outcome = "MalformedPayload"]_vars

\* the session s is deleted, has its status changed or has its records changed
\* by the step
Mutated(s) ==
    \/ s \notin attendanceSessions'
    \/ [r \in RowsOf(attendanceRecords', s.id) |-> attendanceRecords'[r]]
          # [r \in RowsOf(attendanceRecords, s.id) |-> attendanceRecords[r]]
OwnedByOther(caller, sessionId) ==
    \E s \in attendanceSessions : s.id = sessionId /\ s.lecturerId # caller

C13_RecordsReferToStudents ==
    \A r \in Rows(attendanceRecords) : r.studentId \in Users /\ role(r.studentId) = "student"

CreateDone(i) == requests[i].kind = "create" /\ requests[i].pc = "done"
SameTriple(s, courseId, week, date) == s.courseId = courseId /\ s.week = week /\ s.date = date

\* C14: in every reachable state, also after Create requests with the same
\* arguments ran concurrently, at most one session exists per (courseId, week,
\* date) triple.
C14_OneSessionPerTriple ==
    \A s, o \in attendanceSessions : SameTriple(s, o.courseId, o.week, o.date) => s = o

\* of two creates one succeeded, the other was refused by the store, and the
\* triple has its one session
C14_Witness ==
    \E i, j \in RequestIds :
        /\ CreateDone(i) /\ requests[i].outcome = "ok"
        /\ CreateDone(j) /\ requests[j].outcome = "InternalError"
        /\ Cardinality(attendanceSessions) = 1
        /\ \E s \in attendanceSessions : s.id = requests[i].sessionId

\* C15 (as claimed): a Create whose insert finds a session stored for its
\* (courseId, week, date) triple ends with the outcome DuplicateSession and
\* leaves the set of sessions unchanged.
C15_DuplicateSessionOutcome ==
    [][\A i \in RequestIds :
         ( /\ requests[i].kind = "create" /\ requests[i].pc = "insert"
           /\ requests'[i] # requests[i]
           /\ \E s \in attendanceSessions :
                 SameTriple(s, requests[i].courseId, requests[i].week, requests[i].date) )
         => /\ requests'[i].pc = "done" /\ requests'[i].outcome = "DuplicateSession"
            /\ attendanceSessions' = attendanceSessions]_vars

OwnsCourse(caller, courseId) == \E c \in courses : c.id = courseId /\ c.lecturerId = caller

\* C16: a Create by a lecturer for an existing course of another lecturer ends
\* with NotOwner and creates no session, a Create goes on to its insert only
\* for a course of the caller, and in every reachable state each session's
\* lecturerId is the lecturerId of its course.
C16_SessionsFollowCourseOwner ==
    /\ [](\A s \in attendanceSessions : OwnsCourse(s.lecturerId, s.courseId))
    /\ [][\A i \in RequestIds :
            /\ (requests[i].pc = "idle" /\ requests'[i].kind = "create"
                    /\ requests'[i].pc = "insert")
               => /\ OwnsCourse(requests'[i].caller, requests'[i].courseId)
                  /\ attendanceSessions' = attendanceSessions
            /\ (requests[i].pc = "idle" /\ requests'[i].kind = "create") =>
               \A caller \in Callers \cap Lecturers, courseId \in CourseIds,
                  week \in CreateWeeks \ {0}, date \in Dates :
                    (~OwnsCourse(caller, courseId) /\ CreateSession(i, caller, courseId, week, date))
                    => /\ requests'[i].pc = "done" /\ requests'[i].outcome = "NotOwner"
                       /\ attendanceSessions' = attendanceSessions
            /\ (requests[i].kind = "create" /\ requests[i].pc = "insert"
                    /\ requests'[i] # requests[i])
               => \A s \in attendanceSessions' \ attendanceSessions :
                     /\ s.lecturerId = requests[i].caller /\ s.courseId = requests[i].courseId
                     /\ OwnsCourse(s.lecturerId, s.courseId)]_vars

\* a create was refused with NotOwner and the one session stored is l1's own
C16_Witness ==
    \E i, j \in RequestIds :
        /\ CreateDone(i) /\ requests[i].outcome = "NotOwner"
        /\ CreateDone(j) /\ requests[j].outcome = "ok"
        /\ attendanceSessions = {newSession(requests[j].sessionId, "c1", "l1", 1, "2026-01-27")}

\* C17: the owner's delete of a session is possible whatever the session's
\* status; the step that removes a session removes exactly that session and
\* exactly its records, leaving every other session and record as it was; and
\* in every reachable state each record references an existing session.
C17_DeleteCascades ==
    /\ [](\A r \in Rows(attendanceRecords) : Exists(r.sessionId))
    /\ [](\A s \in attendanceSessions :
            ENABLED (DeleteSession(s.lecturerId, s.id) /\ ~Exists(s.id)'))
    /\ [][\A s \in attendanceSessions :
            (\A o \in attendanceSessions' : o.id # s.id) =>
                /\ attendanceSessions' = attendanceSessions \ {s}
                /\ attendanceRecords' =
                     [r \in {x \in Rows(attendanceRecords) : x.sessionId # s.id} |->
                        attendanceRecords[r]]]_vars

\* the completed session 1 was deleted with its records; the session created
\* meanwhile is still there
C17_Witness ==
    \E i, j \in RequestIds :
        /\ CompleteOk(i) /\ requests[i].sessionId = 1 /\ requests[i].absentCount = 2
        /\ CreateDone(j) /\ requests[j].outcome = "ok"
        /\ ~Exists(1) /\ Exists(requests[j].sessionId)
        /\ attendanceRecords = EmptyBag

\* C18: in every reachable state each record has a scanTime that is not null
\* if and only if its status is present (a scan writes present with the
\* server's time, the back-fill of Complete writes absent with null), and
\* present and absent are the only statuses stored.
C18_ScanTimeIffPresent ==
    \A r \in Rows(attendanceRecords) :
        /\ r.status \in {"present", "absent"}
        /\ (r.scanTime # NULL) <=> (r.status = "present")

\* one session holds a scanned student with a scan time and a back-filled one
\* without
C18_Witness ==
    \E p, a \in Rows(attendanceRecords) :
        /\ p.sessionId = a.sessionId
        /\ p.status = "present" /\ p.scanTime = Timestamp(clock) /\ clock > 0
        /\ a.status = "absent" /\ a.scanTime = NULL

\* the records the filter (lecturer, optional course, optional week) selects,
\* stated on the ledger
WeekText(n) == CASE n = 1 -> "1" [] n = 2 -> "2" [] n = 3 -> "3" [] OTHER -> "?"
InFilter(r, lecturerId, courseId, week) ==
    \E s \in attendanceSessions :
        /\ s.id = r.sessionId /\ s.lecturerId = lecturerId
        /\ courseId \in {"", s.courseId} /\ week \in {"", WeekText(s.week)}
Selected(lecturerId, courseId, week, status) ==
    {r \in Rows(attendanceRecords) : InFilter(r, lecturerId, courseId, week) /\ r.status = status}
StatsOk(i) ==
    requests[i].kind = "statistics" /\ requests[i].pc = "done" /\ requests[i].outcome = "ok"

\* C19: ComputeStats by a lecturer over a filter that selects no record
\* succeeds and returns total = 0, presentCount = 0, absentCount = 0 and
\* percentage = 0.
C19_NoRecordsGivesZero ==
    [][\A caller \in Callers \cap Lecturers, courseId \in StatsCourseIds, week \in StatsWeeks :
         ( /\ GetStatistics(1, caller, courseId, week)
           /\ Selected(caller, courseId, week, "present") = {}
           /\ Selected(caller, courseId, week, "absent") = {} )
         => /\ requests'[1].pc = "done" /\ requests'[1].outcome = "ok"
            /\ requests'[1].stats.totalStudents = 0
            /\ requests'[1].stats.presentCount = 0
            /\ requests'[1].stats.absentCount = 0
            /\ requests'[1].stats.percentage = 0]_vars

\* the ledger has records, the filter selected none, and the reply has total 0
\* and percentage 0
C19_Witness ==
    /\ StatsOk(1)
    /\ requests[1].stats.totalStudents = 0 /\ requests[1].stats.percentage = 0
    /\ attendanceRecords # EmptyBag

\* C20: for every ledger content and filter, the total ComputeStats returns is
\* the number of distinct students in its present and absent lists together,
\* the lists hold the students with a selected record of that status, and when
\* total > 0 the percentage is 100 * presentCount / total rounded to the
\* nearest integer (a half up), with presentCount the number of selected
\* present records.
C20_TotalAndPercentage ==
    [][\A caller \in Callers \cap Lecturers, courseId \in StatsCourseIds, week \in StatsWeeks :
         GetStatistics(1, caller, courseId, week) =>
            LET st == requests'[1].stats
                present == Selected(caller, courseId, week, "present")
                absent == Selected(caller, courseId, week, "absent")
            IN /\ {p.studentId : p \in BagToSet(st.presentList)} = {r.studentId : r \in present}
               /\ {a.studentId : a \in BagToSet(st.absentList)} = {r.studentId : r \in absent}
               /\ st.totalStudents =
                     Cardinality({p.studentId : p \in BagToSet(st.presentList)
                                                      \cup BagToSet(st.absentList)})
               /\ st.presentCount = Cardinality(present)
               /\ st.totalStudents > 0 =>
                     /\ 2 * st.totalStudents * st.percentage
                            <= 200 * st.presentCount + st.totalStudents
                     /\ 200 * st.presentCount + st.totalStudents
                            < 2 * st.totalStudents * (st.percentage + 1)]_vars

\* two of three persons present: 66.67 was rounded up to 67
C20_Witness ==
    /\ StatsOk(1)
    /\ requests[1].stats.totalStudents = 3 /\ requests[1].stats.presentCount = 2
    /\ requests[1].stats.absentCount = 1 /\ requests[1].stats.percentage = 67

\* a list of the reply has one entry per student: no entry occurs twice and no
\* two entries have the same studentId
OncePerStudent(list) ==
    /\ \A e \in BagToSet(list) : CopiesIn(e, list) = 1
    /\ \A e, f \in BagToSet(list) : e.studentId = f.studentId => e = f

\* C21: in the result of ComputeStats a student with selected records in
\* several sessions appears at most once in presentList and at most once in
\* absentList.
C21_ListsDeduplicated ==
    \A i \in RequestIds :
        StatsOk(i) => /\ OncePerStudent(requests[i].stats.presentList)
                      /\ OncePerStudent(requests[i].stats.absentList)

\* s1 is present in two selected sessions and s2 absent in two: presentCount
\* and absentCount are 2, each list has its one entry
C21_Witness ==
    /\ StatsOk(1)
    /\ requests[1].stats.presentCount = 2 /\ requests[1].stats.absentCount = 2
    /\ requests[1].stats.presentList = SetToBag({[studentId |-> "s1", name |-> "Alice"]})
    /\ requests[1].stats.absentList = SetToBag({[studentId |-> "s2", name |-> "Bob"]})

\* C22 (as claimed): the failing paths of RecordScan report kinds that tell the
\* failure conditions apart: a payload older than 30 s ends with StalePayload,
\* a payload from the future with FuturePayload, a student who has a record
\* with DuplicateScan, and an insert the unique index refuses with a kind of
\* its own, not with the generic failure of any store error.
C22_DistinctFailureKinds ==
    [][\A i \in RequestIds :
         /\ (requests[i].pc = "idle" /\ requests'[i].kind = "scan") =>
            \A caller \in Callers \cap Lecturers, sessionId \in SessionIds,
               qrData \in QrInputs \ {QrGarbage} :
                RecordScan(i, caller, sessionId, qrData) =>
                    LET age == clock - getTime(qrData.timestamp) IN
                    /\ age > 30 * 1000 => requests'[i].outcome = "StalePayload"
                    /\ age < 0 => requests'[i].outcome = "FuturePayload"
         /\ ( /\ requests[i].kind = "scan" /\ requests[i].pc = "findExisting"
              /\ requests'[i].pc = "done" )
            => requests'[i].outcome = "DuplicateScan"
         /\ ( /\ requests[i].kind = "scan" /\ requests[i].pc = "insert"
              /\ requests'[i].pc = "done"
              /\ CountFor(attendanceRecords, requests[i].sessionId, requests[i].studentId) > 0 )
            => requests'[i].outcome \notin
                    {"ok", "InternalError", "DuplicateScan", "StalePayload", "FuturePayload"}]_vars

\* the ledger without the records the filter does not select
OnlySelected(lecturerId, courseId, week) ==
    LET keep == Selected(lecturerId, courseId, week, "present")
                \cup Selected(lecturerId, courseId, week, "absent")
    IN [r \in keep |-> attendanceRecords[r]]

\* C23: the result of ComputeStats for a lecturer and a filter is the result
\* computed from the ledger with every record removed that belongs to a
\* session of another lecturer or to a session outside the filter: such
\* records, whatever they are, never change the result.
C23_OnlyOwnRecordsCount ==
    [][\A caller \in Callers \cap Lecturers, courseId \in StatsCourseIds, week \in StatsWeeks :
         GetStatistics(1, caller, courseId, week) =>
            /\ requests'[1].outcome = "ok"
            /\ requests'[1].stats =
                  computeStatistics(attendanceSessions, OnlySelected(caller, courseId, week),
                                    caller, courseId, week)
            /\ requests'[1].stats.presentCount =
                  Cardinality(Selected(caller, courseId, week, "present"))
            /\ requests'[1].stats.absentCount =
                  Cardinality(Selected(caller, courseId, week, "absent"))]_vars

\* every present record is in a session of l2 and every absent one in a
\* session of l1; the reply counts the absent ones only
C23_Witness ==
    /\ StatsOk(1)
    /\ requests[1].stats.presentCount = 0 /\ requests[1].stats.absentCount = 2
    /\ \E r \in Rows(attendanceRecords) : r.status = "present"
    /\ \A r \in Rows(attendanceRecords), s \in attendanceSessions :
            s.id = r.sessionId =>
                s.lecturerId = (IF r.status = "present" THEN "l2" ELSE "l1")

\* the failure the session named by a scan calls for, in the order NotFound,
\* NotOwner, SessionNotActive
SessionFailure(caller, sessionId) ==
    IF ~Exists(sessionId) THEN "NotFound"
    ELSE IF OwnedByOther(caller, sessionId) THEN "NotOwner"
    ELSE IF ~HasStatus(sessionId, "active") THEN "SessionNotActive"
    ELSE ""

\* C24 (as amended): RecordScan evaluates its failure conditions in the order
\* payload checks (missing, unparseable, stale or future-dated), NotFound,
\* NotOwner, SessionNotActive, UnknownStudent, DuplicateScan. A stale or
\* future-dated payload fails with the payload's error whatever session is
\* named; a payload that passes fails with NotFound on a non-existent session
\* and with NotOwner or SessionNotActive on another lecturer's or a completed
\* session, also when the student is unknown or already has a record.
C24_OrderOfChecks ==
    [][\A i \in RequestIds :
         /\ (requests[i].pc = "idle" /\ requests'[i].kind = "scan") =>
            \A caller \in Callers \cap Lecturers, sessionId \in SessionIds,
               qrData \in QrInputs \ {QrGarbage} :
                ( /\ requests'[i].pc = "done" \/ requests'[i].qrData = qrData
                  /\ requests'[i] = scanStart([Idle EXCEPT !.kind = "scan", !.caller = caller,
                                                           !.sessionId = sessionId,
                                                           !.qrData = qrData], clock) ) =>
                    LET age == clock - getTime(qrData.timestamp) IN
                    IF age < 0 \/ age > 30 * 1000
                    THEN requests'[i].pc = "done" /\ requests'[i].outcome = "InvalidOrExpired"
                    ELSE requests'[i].pc = "findSession"
         /\ ( /\ requests[i].kind = "scan" /\ requests[i].pc = "findSession"
              /\ requests'[i] # requests[i] )
            => LET fail == SessionFailure(requests[i].caller, requests[i].sessionId) IN
               IF fail # ""
               THEN requests'[i].pc = "done" /\ requests'[i].outcome = fail
               ELSE IF requests[i].studentId \notin Users
               THEN requests'[i].pc = "done" /\ requests'[i].outcome = "UnknownStudent"
               ELSE requests'[i].pc = "findExisting"]_vars

\* with no session left, one scan was refused for its payload and one, whose
\* payload passed, with NotFound
C24_Witness ==
    \E i, j \in RequestIds :
        /\ ScanDone(i) /\ requests[i].outcome = "InvalidOrExpired"
        /\ ScanDone(j) /\ requests[j].outcome = "NotFound"
        /\ attendanceSessions = {}

\* C24 (as claimed): the session checks come first: a scan naming a session
\* that does not exist, another lecturer's session or a completed session ends
\* with NotFound, NotOwner or SessionNotActive also when its payload is stale or
\* future-dated.
C24_SessionChecksFirst ==
    [][\A i \in RequestIds :
         (requests[i].pc = "idle" /\ requests'[i].kind = "scan") =>
         \A caller \in Callers \cap Lecturers, sessionId \in SessionIds,
            qrData \in QrInputs \ {QrGarbage} :
            (SessionFailure(caller, sessionId) # "" /\ RecordScan(i, caller, sessionId, qrData))
            => (requests'[i].pc = "done"
                    => requests'[i].outcome = SessionFailure(caller, sessionId))]_vars

\* request 1 produced a payload for the student requests[1].studentId
Issued == requests[1].kind \in {"qr", "screen"} /\ requests[1].outcome = "ok"

\* C25 (as claimed): a payload produced for a student at time t and submitted
\* unchanged by the owning lecturer on an active session at a time t' with
\* 0 <= t' - t <= 30 s decodes to the student's id and to t, passes the freshness
\* check, resolves to the student and, if the student has no record in the
\* session, ends with a present record for exactly that student.
C25_IssuedPayloadRecordsStudent ==
    [][/\ getTime(toISOString(clock)) = clock
       /\ (Issued /\ requests[2].pc = "idle" /\ requests'[2].kind = "scan") =>
            LET age == clock - getTime(requests[1].qrData.timestamp) IN
            (0 <= age /\ age <= 30 * 1000) =>
                /\ requests'[2].pc = "findSession"
                /\ requests'[2].studentId = requests[1].studentId
       /\ (requests[2].pc = "findSession" /\ requests'[2] # requests[2])
            => requests'[2].pc = "findExisting"
       /\ ( /\ requests[2].pc = "findExisting" /\ requests'[2] # requests[2]
            /\ CountFor(attendanceRecords, 1, requests[1].studentId) = 0 )
            => requests'[2].pc = "insert"
       /\ (requests[2].pc = "insert" /\ requests'[2] # requests[2])
            => /\ requests'[2].outcome = "ok"
               /\ attendanceRecords' = attendanceRecords (+)
                     SetToBag({[sessionId |-> 1, studentId |-> requests[1].studentId,
                                status |-> "present", scanTime |-> Timestamp(clock)]})]_vars

\* C26 (as claimed): under every interleaving of scans and completions, no
\* step adds a present record to a session that is already completed.
C26_NoPresentAfterCompleted ==
    [][\A r \in Rows(attendanceRecords') :
         (r.status = "present" /\ CopiesIn(r, attendanceRecords') > CopiesIn(r, attendanceRecords))
         => HasStatus(r.sessionId, "active")]_vars

\* C27: no step of a Complete request modifies or removes a record: every
\* record stored before the step is stored after it, unchanged (a present
\* record keeps its scanTime), and the records the step adds are absent
\* records, without scan time, of the request's session, for students of its
\* back-fill who had no record of any status.
C27_CompleteOnlyAddsAbsent ==
    [][\A i \in RequestIds :
         (requests[i].kind = "complete" /\ requests'[i] # requests[i]) =>
            /\ \A r \in Rows(attendanceRecords) :
                    CopiesIn(r, attendanceRecords') = CopiesIn(r, attendanceRecords)
            /\ \A r \in Rows(attendanceRecords') \ Rows(attendanceRecords) :
                    /\ r.status = "absent" /\ r.scanTime = NULL
                    /\ r.sessionId = requests[i].sessionId
                    /\ r.studentId \in requests[i].unscanned
                    /\ CountFor(attendanceRecords, r.sessionId, r.studentId) = 0
                    /\ CopiesIn(r, attendanceRecords') = 1]_vars

\* the scan of a student at time 0 was followed by a completion that
\* back-filled the other student: the present record still has its scan time
C27_Witness ==
    \E i, j \in RequestIds :
        /\ ScanDone(j) /\ requests[j].outcome = "ok"
        /\ CompleteOk(i) /\ requests[i].absentCount = 1
        /\ requests[i].sessionId = requests[j].sessionId
        /\ clock > 0
        /\ \E p, a \in RowsOf(attendanceRecords, requests[i].sessionId) :
              /\ p.studentId = requests[j].studentId
              /\ p.status = "present" /\ p.scanTime = Timestamp(0)
              /\ a.studentId # p.studentId /\ a.status = "absent"

\* C28 (as claimed): every statistics reply, whatever the ledger and the
\* filter (a filter that selects several sessions of one course included),
\* has a percentage between 0 and 100 and a presentCount that does not exceed
\* totalStudents.
C28_PercentageWithinBounds ==
    \A i \in RequestIds :
        StatsOk(i) =>
            /\ requests[i].stats.percentage >= 0
            /\ requests[i].stats.percentage <= 100
            /\ requests[i].stats.presentCount <= requests[i].stats.totalStudents

\* a request that ended at the role check: one step from idle to its reply,
\* with the store as it was
RejectedAtOnce(i, outcome) ==
    /\ requests'[i].pc = "done" /\ requests'[i].outcome = outcome
    /\ UNCHANGED <<attendanceSessions, attendanceRecords, nextSessionId>>

\* C29: a create, scan or complete request of a caller whose role is not
\* lecturer ends in its first step, before any store statement, with the
\* outcome NotLecturer, and sessions and records are unchanged; a payload
\* request of a caller whose role is not student ends with NotStudent and no
\* payload, and that of a student returns a payload whose studentId is the
\* caller's own id.
C29_RoleGating ==
    [][\A i \in RequestIds, caller \in Callers :
         /\ (/\ requests[i].pc = "idle" /\ requests'[i].kind = "create"
             /\ role(caller) # "lecturer"
             /\ \E week \in RolesWeeks, date \in Dates :
                    CreateSession(i, caller, "c1", week, date))
                => RejectedAtOnce(i, "NotLecturer")
         /\ (/\ requests[i].pc = "idle" /\ requests'[i].kind = "scan"
             /\ role(caller) # "lecturer"
             /\ \E qrData \in RolesQrInputs : RecordScan(i, caller, 1, qrData))
                => RejectedAtOnce(i, "NotLecturer")
         /\ (/\ requests[i].pc = "idle" /\ requests'[i].kind = "complete"
             /\ role(caller) # "lecturer"
             /\ CompleteSession(i, caller, 1))
                => RejectedAtOnce(i, "NotLecturer")
         /\ (/\ requests[i].pc = "idle" /\ requests'[i].kind = "qr"
             /\ GetStudentQr(i, caller))
                => IF role(caller) = "student"
                   THEN /\ requests'[i].outcome = "ok"
                        /\ requests'[i].qrData.syntax = "object"
                        /\ requests'[i].qrData.studentId = caller
                   ELSE /\ RejectedAtOnce(i, "NotStudent")
                        /\ requests'[i].qrData = QrEmpty]_vars

\* a student was refused by a lecturer handler and served a payload of their
\* own, with the scanned record of the start still the only record
C29_Witness ==
    /\ requests[1].kind \in {"create", "scan", "complete"}
    /\ requests[1].outcome = "NotLecturer"
    /\ requests[2].kind = "qr" /\ requests[2].outcome = "ok"
    /\ requests[2].qrData.studentId = "s1"
    /\ attendanceRecords = SetToBag({presentRecord(1, "s1", 0)})
    /\ Cardinality(attendanceSessions) = 1

\* the setters hold true: an event is being handled
ScreenLocked == screen.setScanned \/ screen.setProcessing
\* the screen shows scanned and processing false again
ScreenReleased == ~screen.scanned /\ ~screen.processing

\* C30 (as claimed): on the scan screen at most one barcode event is handled
\* at a time (no second "Attendance Marked" dialog opens while one waits for
\* its OK, and a barcode that arrives while scanned or processing is set opens
\* no dialog), and every handled event is followed by scanned and processing
\* both false again.
C30_OneEventAtATime ==
    /\ [](screen.alerts.marked <= 1)
    /\ [][ScreenLocked => OpenAlerts(screen') <= OpenAlerts(screen)]_vars
    /\ (ScreenLocked ~> ScreenReleased)

====
